---- MODULE Spec2Model ----
(***************************************************************************)
(* Model of se3cnn/image/groupnorm.py: SE3GroupNorm (constructor and       *)
(* forward pass, one loop iteration per step) and SE3GNConvolution.        *)
(*                                                                         *)
(* Tensors are functions over index tuples.  A 5-d tensor [B, C, X, Y, Z]  *)
(* is kept with its spatial axes flattened (the code itself only ever      *)
(* views them as one axis of X*Y*Z entries), together with its size tuple. *)
(* Entries of the input are integers; the arithmetic of forward is exact:  *)
(* means and mean squares are rationals, and an output entry is kept as    *)
(* the terms of   centred * (stat + eps)^(-1/2) * weight + bias.           *)
(***************************************************************************)
EXTENDS Integers, Sequences, FiniteSets, TLC

\* ------------------------------------------------------------------ bounds

\* longest representation list Rs
MaxLen == 2
\* largest multiplicity m of a pair of Rs
MaxMul == 2
\* largest degree l; the dimensions of Rs are 0 and 2*l+1 for l in 0..MaxL
MaxL == 1
\* largest total number of channels of a representation list
MaxChannels == 6

\* ------------------------------------------------------- exact arithmetic

Abs(n) == IF n < 0 THEN -n ELSE n

RECURSIVE Gcd(_, _)
Gcd(a, b) == IF b = 0 THEN a ELSE Gcd(b, a % b)

\* the value of an empty mean (0 / 0)
NaN == <<0, 0>>

\* the rational n/d in lowest terms with a positive denominator; NaN if d = 0
Rat(n, d) ==
    IF d = 0 THEN NaN
    ELSE LET g == Gcd(Abs(n), Abs(d))
             s == IF d < 0 THEN -1 ELSE 1
         IN  <<(s * n) \div g, (s * d) \div g>>

RatInt(n) == <<n, 1>>
RatAdd(p, q) == Rat(p[1] * q[2] + q[1] * p[2], p[2] * q[2])
RatSub(p, q) == Rat(p[1] * q[2] - q[1] * p[2], p[2] * q[2])
RatMul(p, q) == Rat(p[1] * q[1], p[2] * q[2])
RatDivInt(p, n) == Rat(p[1], p[2] * n)

\* sum of the rationals f[lo], ..., f[hi], halving the range
RECURSIVE RatSumRange(_, _, _)
RatSumRange(f, lo, hi) ==
    IF lo > hi THEN RatInt(0)
    ELSE IF lo = hi THEN f[lo]
    ELSE LET mid == (lo + hi) \div 2
         IN  RatAdd(RatSumRange(f, lo, mid), RatSumRange(f, mid + 1, hi))

\* sum of the rationals f[1], ..., f[n]
RatSum(f, n) == RatSumRange(f, 1, n)

\* the tuple <<f[1], ..., f[n]>>
RECURSIVE Tabulate(_, _)
Tabulate(f, n) == IF n = 0 THEN <<>> ELSE Append(Tabulate(f, n - 1), f[n])

\* Python's None, and a value that is present
None == <<>>
Some(v) == <<v>>

\* --------------------------------------------------- representation lists

RECURSIVE SumSeq(_)
SumSeq(s) == IF s = <<>> THEN 0 ELSE s[1] + SumSeq(Tail(s))

\* sum([m * d for m, d in Rs])
Width(Rs_) == SumSeq([i \in 1..Len(Rs_) |-> Rs_[i][1] * Rs_[i][2]])
\* sum([m for m, d in Rs])
SumMul(Rs_) == SumSeq([i \in 1..Len(Rs_) |-> Rs_[i][1]])
\* sum([m for m, d in Rs if d == 1])
SumMulScalar(Rs_) ==
    SumSeq([i \in 1..Len(Rs_) |-> IF Rs_[i][2] = 1 THEN Rs_[i][1] ELSE 0])

\* Rs[:n]
Prefix(s, n) == SubSeq(s, 1, n)

\* ------------------------------------------------------------------ state

VARIABLES
    cls,        \* the class of the module under test
    ctor,       \* SE3GNConvolution.__init__'s arguments (None for SE3GroupNorm)
    Rs_arg,     \* the Rs argument SE3GroupNorm.__init__ received
    Rs,         \* self.Rs
    affine,     \* self.affine
    weight,     \* self.weight: None, or Some(vector)
    bias,       \* self.bias: None, or Some(vector)
    trained,    \* whether an optimiser step has changed the parameters
    input,      \* the argument of forward: None before the call, or Some(tensor)
    pc,         \* where forward is
    raised,     \* None, or Some(<<exception type, source line>>)
    k,          \* number of pairs of self.Rs the loop of forward has consumed
    ix,         \* forward's channel offset
    iw,         \* forward's weight offset
    ib,         \* forward's bias offset
    fields,     \* forward's list of processed blocks
    reads,      \* per block consumed: the channel, weight and bias ranges read
    y,          \* the value SE3GroupNorm.forward returned (None before)
    out,        \* the value SE3GNConvolution.forward returned (None before)
    calls       \* the modules whose forward has been called, in order

vars == <<cls, ctor, Rs_arg, Rs, affine, weight, bias, trained, input, pc, raised,
          k, ix, iw, ib, fields, reads, y, out, calls>>

\* ------------------------------------------------------------ constructor

\* default eps = 1e-5
eps == <<1, 100000>>

\* [(m, d) for m, d in Rs if m * d > 0]
KeptRs(Rs_) == SelectSeq(Rs_, LAMBDA p : p[1] * p[2] > 0)

\* torch.ones(n), torch.zeros(n)
Ones(n) == [i \in 1..n |-> 1]
Zeros(n) == [i \in 1..n |-> 0]

\* nn.Parameter(torch.ones(sum([m for m, d in Rs])))
WeightLen(Rs_) == SumMul(Rs_)

\* nn.Parameter(torch.zeros(sum([m for m, d in Rs if d == 1])))
BiasLen(Rs_) == SumMulScalar(Rs_)

\* variant of __init__ that allocates the parameters whatever affine is
InitIgnoringAffine(Rs_, affine_) ==
    [Rs     |-> KeptRs(Rs_),
     affine |-> affine_,
     weight |-> Some(Ones(WeightLen(Rs_))),
     bias   |-> Some(Zeros(BiasLen(Rs_)))]
\* SE3GroupNorm.__init__(Rs, eps, affine): the attributes it sets
SE3GroupNorm_init(Rs_, affine_) ==
    [Rs     |-> KeptRs(Rs_),
     affine |-> affine_,
     weight |-> IF affine_ THEN Some(Ones(WeightLen(Rs_))) ELSE None,
     bias   |-> IF affine_ THEN Some(Zeros(BiasLen(Rs_))) ELSE None]

\* variant of the default Rs_gn that takes the degree l for the dimension
DefaultRsGnDegree(Rs_in) == [i \in 1..Len(Rs_in) |-> <<Rs_in[i][1], Rs_in[i][2]>>]
\* [(m, 2 * l + 1) for m, l in Rs_in]
DefaultRsGn(Rs_in) == [i \in 1..Len(Rs_in) |-> <<Rs_in[i][1], 2 * Rs_in[i][2] + 1>>]

\* SE3GNConvolution.__init__: the Rs it hands to SE3GroupNorm
GNConvRsGn(Rs_in, Rs_gn) == IF Rs_gn = None THEN DefaultRsGn(Rs_in) ELSE Rs_gn[1]

\* ----------------------------------------------------------------- inputs

\* the (multiplicity, dimension) pairs of the representation lists explored
Dims == {0} \cup {2 * l + 1 : l \in 0..MaxL}
Pairs == (0..MaxMul) \X Dims

\* the sequences over S of length at most n
SeqsUpTo(S, n) == UNION {[1..j -> S] : j \in 0..n}

\* the Rs of test_groupnorm
TestRs == << <<3, 1>>, <<4, 3>>, <<1, 5>> >>

RsChoices ==
    {r \in SeqsUpTo(Pairs, MaxLen) : Width(r) <= MaxChannels} \cup {TestRs}

\* the (multiplicity, degree) lists given to SE3GNConvolution
RsInChoices ==
    {r \in SeqsUpTo((0..MaxMul) \X (0..MaxL), MaxLen) :
        Width(DefaultRsGn(r)) <= MaxChannels}

\* explicit Rs_gn arguments given to SE3GNConvolution
RsGnChoices == {None, Some(<< <<1, 1>> >>), Some(<< <<1, 3>>, <<2, 1>> >>)}

\* <<B, X, Y, Z>> of the inputs explored (empty tensors included)
InputShapes == {<<2, 2, 1, 1>>, <<0, 1, 1, 1>>, <<1, 1, 0, 1>>}

\* the entries of the input tensor
InputValue(b, c, s) == (b * c * c + 2 * c + s * (b + c)) % 5

\* a tensor [B, C, X, Y, Z], its spatial axes flattened
Tensor(B, C, X, Y, Z) ==
    [size |-> <<B, C, X, Y, Z>>,
     at   |-> [t \in (1..B) \X (1..C) \X (1..(X * Y * Z)) |->
                  InputValue(t[1], t[2], t[3])]]

Batch(t) == t.size[1]
Channels(t) == t.size[2]
Spatial(t) == t.size[3] * t.size[4] * t.size[5]

\* ---------------------------------------------------------------- forward

\* input[:, ix: ix + n]: the number of channels the slice holds
SliceLen(C, lo, n) ==
    LET a == IF lo < C THEN lo ELSE C
        b == IF lo + n < C THEN lo + n ELSE C
    IN  b - a

\* v[lo: hi] of a vector (offsets from 0; Python cuts the slice at the end)
PySlice(v, lo, hi) ==
    SubSeq(v, (IF lo < Len(v) THEN lo ELSE Len(v)) + 1, IF hi < Len(v) THEN hi ELSE Len(v))

\* tensor.view(..., -1) of a tensor of numel entries, the other sizes having
\* product newsize: whether torch can infer the last size
ViewInfers(numel, newsize) == newsize > 0 /\ numel % newsize = 0

\* field.view(B, m, d, -1)[b, i, j, s], the slice starting at channel lo
\* (channels, multiplicities and components counted from 1)
FieldAt(t, lo, d, b, i, j, s) == t.at[<<b, lo + (i - 1) * d + j, s>>]

\* the multiplicity index of channel c of a block of dimension d
MulOf(c, d) == ((c - 1) \div d) + 1
\* the component index of channel c of a block of dimension d
CompOf(c, d) == ((c - 1) % d) + 1

\* field.view(B, -1)[b] of a block [B, m, d, S]: its n-th entry (from 1)
FlatAt(t, lo, d, S, b, n) ==
    LET c == ((n - 1) \div S) + 1
    IN  FieldAt(t, lo, d, b, MulOf(c, d), CompOf(c, d), ((n - 1) % S) + 1)

\* variant of field_mean that averages over the whole batch
FieldMeanOverBatch(t, lo, m, d, b) ==
    LET S == Spatial(t)
        B == Batch(t)
        n == m * d * S
    IN  RatDivInt(
            RatSum([q \in 1..(B * n) |->
                       RatInt(FlatAt(t, lo, d, S, ((q - 1) \div n) + 1, ((q - 1) % n) + 1))],
                   B * n),
            B * n)
\* variant of field_mean that averages over every channel of the input
FieldMeanAllChannels(t, lo, m, d, b) ==
    LET S == Spatial(t)
        n == Channels(t) * S
    IN  RatDivInt(RatSum([q \in 1..n |-> RatInt(FlatAt(t, 0, 1, S, b, q))], n), n)
\* field.view(input.size(0), -1).mean(-1)[b]
FieldMean(t, lo, m, d, b) ==
    LET S == Spatial(t)
    IN  RatDivInt(
            RatSum([n \in 1..(m * d * S) |-> RatInt(FlatAt(t, lo, d, S, b, n))],
                   m * d * S),
            m * d * S)

\* variant that centres every block
CentresAlways(d) == TRUE
\* whether forward subtracts the mean of a block of dimension d (line 42)
Centres(d) == d = 1

\* field_mean (line 43): one mean per batch sample
FieldMeans(t, lo, m, d) ==
    Tabulate([b \in 1..Batch(t) |-> FieldMean(t, lo, m, d, b)], Batch(t))

\* field[b, i, j, s] after lines 42-44, mu being field_mean where it is computed
Centred(t, lo, d, mu, b, i, j, s) ==
    IF Centres(d)
    THEN RatSub(RatInt(FieldAt(t, lo, d, b, i, j, s)), mu[b])
    ELSE RatInt(FieldAt(t, lo, d, b, i, j, s))

\* torch.sum(field ** 2, dim=2).view(input.size(0), -1).mean(-1)[b]
FieldNorm(t, lo, m, d, mu, b) ==
    LET S == Spatial(t)
        sq == [n \in 1..(m * d * S) |->
                 LET c  == ((n - 1) \div S) + 1
                     cv == Centred(t, lo, d, mu, b, MulOf(c, d), CompOf(c, d),
                                   ((n - 1) % S) + 1)
                 IN  RatMul(cv, cv)]
    IN  RatDivInt(RatSum(sq, m * d * S), m * S)

\* field_norm (lines 46-47): one statistic per batch sample
FieldNorms(t, lo, m, d, mu) ==
    Tabulate([b \in 1..Batch(t) |-> FieldNorm(t, lo, m, d, mu, b)], Batch(t))

\* Lines 38-62 for one block whose slice is whole: the block
\* [B, m * d, X, Y, Z] appended to fields.  An entry holds the terms of
\*   centred * ((norm + eps) ^ (-0.5) * weight) + bias
\* with weight and bias None where the code applies none.
\* w and b are the slices self.weight[iw: iw + m] and self.bias[ib: ib + m],
\* or None where the code does not read them.
ProcessField(t, lo, m, d, w, b) ==
    LET mu   == IF Centres(d) THEN FieldMeans(t, lo, m, d) ELSE <<>>
        norm == FieldNorms(t, lo, m, d, mu)
    IN  [size |-> <<Batch(t), m * d, t.size[3], t.size[4], t.size[5]>>,
         at   |-> [e \in (1..Batch(t)) \X (1..(m * d)) \X (1..Spatial(t)) |->
                     LET i == MulOf(e[2], d)
                         j == CompOf(e[2], d)
                     IN  [centred  |-> Centred(t, lo, d, mu, e[1], i, j, e[3]),
                          radicand |-> RatAdd(norm[e[1]], eps),
                          weight   |-> IF w = None THEN None ELSE Some(w[1][i]),
                          bias     |-> IF b = None THEN None ELSE Some(b[1][i])]]]

\* the block, and the channel in it, that channel c of torch.cat(fields, dim=1)
\* comes from (fields a non-empty list of blocks [B, n_i, X, Y, Z])
RECURSIVE BlockOf(_, _)
BlockOf(fs, c) ==
    IF c <= fs[1].size[2] THEN <<1, c>>
    ELSE LET r == BlockOf(Tail(fs), c - fs[1].size[2]) IN <<r[1] + 1, r[2]>>

\* variant of the return value that keeps the last block only
CatLast(fs) == fs[Len(fs)]
\* torch.cat(fields, dim=1)
Cat(fs) ==
    LET n == SumSeq([i \in 1..Len(fs) |-> fs[i].size[2]])
        f == fs[1]
    IN  [size |-> <<f.size[1], n, f.size[3], f.size[4], f.size[5]>>,
         at   |-> [e \in (1..f.size[1]) \X (1..n) \X (1..(f.size[3] * f.size[4] * f.size[5])) |->
                     LET q == BlockOf(fs, e[2])
                     IN  fs[q[1]].at[<<e[1], q[2], e[3]>>]]]

\* the external convolution SE3Convolution(Rs_in, Rs_out, size)(x): opaque
SE3Convolution(x) == [conv |-> x]

\* ------------------------------------------------------------------ steps

\* channel counts tried against a module whose blocks take n channels
ChannelChoices(n) == {c \in {n - 1, n, n + 1} : c >= 0}

\* the parameter vectors an optimiser step may leave (lengths unchanged)
Learned(v, o) == [i \in 1..Len(v) |-> v[i] + i + o]

Init ==
    /\ \/ /\ cls = "SE3GroupNorm"
          /\ ctor = None
          /\ Rs_arg \in RsChoices
          /\ affine \in BOOLEAN
       \/ /\ cls = "SE3GNConvolution"
          /\ ctor \in {[Rs_in |-> r, Rs_gn |-> g] : r \in RsInChoices, g \in RsGnChoices}
          /\ Rs_arg = GNConvRsGn(ctor.Rs_in, ctor.Rs_gn)
          /\ affine = TRUE
    /\ Rs = SE3GroupNorm_init(Rs_arg, affine).Rs
    /\ weight = SE3GroupNorm_init(Rs_arg, affine).weight
    /\ bias = SE3GroupNorm_init(Rs_arg, affine).bias
    /\ trained = FALSE
    /\ input = None
    /\ pc = "idle"
    /\ raised = None
    /\ k = 0 /\ ix = 0 /\ iw = 0 /\ ib = 0
    /\ fields = <<>> /\ reads = <<>>
    /\ y = None /\ out = None /\ calls = <<>>

\* an optimiser step on the nn.Parameters between construction and forward
UpdateParameters ==
    /\ pc = "idle" /\ affine /\ ~trained
    /\ weight' = Some(Learned(weight[1], 1))
    /\ bias' = Some(Learned(bias[1], 0))
    /\ trained' = TRUE
    /\ UNCHANGED <<cls, ctor, Rs_arg, Rs, affine, input, pc, raised, k, ix, iw, ib,
                   fields, reads, y, out, calls>>

\* module(input): SE3GroupNorm.forward is entered (lines 33-36), from
\* SE3GNConvolution.forward (line 98) when the module is the wrapper
Call ==
    /\ pc = "idle"
    /\ \E sh \in InputShapes, C \in ChannelChoices(Width(Rs)) :
          input' = Some(Tensor(sh[1], C, sh[2], sh[3], sh[4]))
    /\ calls' = Append(calls, "gn")
    /\ pc' = "loop"
    /\ k' = 0 /\ ix' = 0 /\ iw' = 0 /\ ib' = 0 /\ fields' = <<>> /\ reads' = <<>>
    /\ UNCHANGED <<cls, ctor, Rs_arg, Rs, affine, weight, bias, trained, raised, y, out>>

\* whether the block of dimension d gets a bias (line 57)
Biased(d) == affine /\ d = 1

\* variant that never advances iw
NextIwStuck(m) == iw
\* the weight offset after a block of multiplicity m (lines 50-52)
NextIw(m) == IF affine THEN iw + m ELSE iw

\* the bias offset after a block (m, d) (lines 57-59)
NextIb(m, d) == IF Biased(d) THEN ib + m ELSE ib

\* one iteration of the loop of forward (lines 37-62)
LoopBody ==
    /\ pc = "loop" /\ k < Len(Rs)
    /\ LET m    == Rs[k + 1][1]
           d    == Rs[k + 1][2]
           t    == input[1]
           have == SliceLen(Channels(t), ix, m * d)
           w    == IF affine THEN Some(PySlice(weight[1], iw, iw + m)) ELSE None
           b    == IF Biased(d) THEN Some(PySlice(bias[1], ib, ib + m)) ELSE None
       IN  /\ ix' = ix + m * d
           /\ k' = k + 1
           /\ IF ~ViewInfers(Batch(t) * have * Spatial(t), Batch(t) * m * d)
              THEN \* line 40: view(input.size(0), m, d, -1) raises
                   /\ pc' = "raised" /\ raised' = Some(<<"RuntimeError", 40>>)
                   /\ UNCHANGED <<iw, ib, fields, reads>>
              ELSE /\ iw' = NextIw(m)
                   /\ ib' = NextIb(m, d)
                   /\ reads' = Append(reads,
                                 [m |-> m, d |-> d, chan |-> <<ix, ix + m * d>>,
                                  w |-> IF affine THEN Some(<<iw, iw + m>>) ELSE None,
                                  b |-> IF Biased(d) THEN Some(<<ib, ib + m>>) ELSE None])
                   /\ IF Batch(t) * have * Spatial(t) # Batch(t) * m * d * Spatial(t)
                      THEN \* line 62: view(input.size(0), m * d, X, Y, Z) raises
                           /\ pc' = "raised" /\ raised' = Some(<<"RuntimeError", 62>>)
                           /\ UNCHANGED fields
                      ELSE /\ fields' = Append(fields, ProcessField(t, ix, m, d, w, b))
                           /\ UNCHANGED <<pc, raised>>
    /\ UNCHANGED <<cls, ctor, Rs_arg, Rs, affine, weight, bias, trained, input, y, out,
                   calls>>

\* variant of the assertion that accepts unconsumed channels
ChannelAssertLoose(t) == ix <= Channels(t)
\* assert ix == input.size(1)
ChannelAssert(t) == ix = Channels(t)

\* the end of forward (lines 64-68): the assertions, then torch.cat
LoopExit ==
    /\ pc = "loop" /\ k = Len(Rs)
    /\ IF ~ChannelAssert(input[1])
       THEN /\ pc' = "raised" /\ raised' = Some(<<"AssertionError", 64>>) /\ y' = y
       ELSE IF affine /\ iw # Len(weight[1])
       THEN /\ pc' = "raised" /\ raised' = Some(<<"AssertionError", 66>>) /\ y' = y
       ELSE IF affine /\ ib # Len(bias[1])
       THEN /\ pc' = "raised" /\ raised' = Some(<<"AssertionError", 67>>) /\ y' = y
       ELSE IF fields = <<>>
       THEN \* torch.cat of an empty list raises
            /\ pc' = "raised" /\ raised' = Some(<<"RuntimeError", 68>>) /\ y' = y
       ELSE /\ y' = Some(Cat(fields))
            /\ pc' = IF cls = "SE3GNConvolution" THEN "conv" ELSE "returned"
            /\ raised' = raised
    /\ UNCHANGED <<cls, ctor, Rs_arg, Rs, affine, weight, bias, trained, input, k, ix, iw,
                   ib, fields, reads, out, calls>>

\* SE3GNConvolution.forward (line 98): self.conv applied to what self.gn returned
Conv ==
    /\ pc = "conv"
    /\ out' = Some(SE3Convolution(y[1]))
    /\ calls' = Append(calls, "conv")
    /\ pc' = "returned"
    /\ UNCHANGED <<cls, ctor, Rs_arg, Rs, affine, weight, bias, trained, input, raised, k,
                   ix, iw, ib, fields, reads, y>>

Next == UpdateParameters \/ Call \/ LoopBody \/ LoopExit \/ Conv

Spec == Init /\ [][Next]_vars

\* ------------------------------------------------------------- properties

Called == input # None
Terminated == pc \in {"returned", "raised"}
LoopDone == pc # "idle" /\ k = Len(Rs) /\ (raised = None \/ raised[1][2] > 62)
RaisedType == raised[1][1]
\* SE3GroupNorm.forward has just returned y
GroupNormReturned == y # None /\ out = None

\* the input with one entry changed
PointChange(t, e) == [t EXCEPT !.at[e] = @ + 1]
\* a parameter vector with one entry changed
Bumped(v, i) == [v EXCEPT ![i] = @ + 1]
\* the entries of batch sample b of a block
OfBatch(f, b) == [e \in {x \in DOMAIN f.at : x[1] = b} |-> f.at[e]]

AllPositive(Rs_) == \A i \in 1..Len(Rs_) : Rs_[i][1] >= 1 /\ Rs_[i][2] >= 1

\* C1 as stated: for every Rs of pairs with m >= 1 and d >= 1 and every input
\* whose channel count is the sum of m * d, forward raises nothing and
\* returns a tensor of the input's shape.
C1_AnyRsAnyInput ==
    (Called /\ AllPositive(Rs_arg) /\ Channels(input[1]) = Width(Rs_arg))
        => /\ raised = None
           /\ y # None => y[1].size = input[1].size

\* C1 amended: the same for every non-empty Rs of pairs with m >= 1 and
\* d >= 1 and every matching input with at least one batch sample: forward
\* raises nothing, ends by returning, and the result has the input's shape.
C1_ShapePreserved ==
    (Called /\ AllPositive(Rs_arg) /\ Rs_arg # <<>> /\ Batch(input[1]) >= 1
        /\ Channels(input[1]) = Width(Rs_arg))
        => /\ raised = None
           /\ pc \in {"loop", "conv", "returned"}
           /\ (pc # "loop") => y # None
           /\ y # None => y[1].size = input[1].size

C1_Witness ==
    /\ cls = "SE3GroupNorm" /\ Rs_arg = TestRs /\ pc = "returned"
    /\ y[1].size = <<2, 20, 2, 1, 1>> /\ input[1].size = <<2, 20, 2, 1, 1>>

\* C2 as stated: a freshly constructed affine module has a weight vector of
\* ones whose length is the sum of m over the kept blocks and a bias vector
\* of zeros whose length is the sum of m over the kept blocks with d = 1.
C2_ParameterLengths ==
    (affine /\ ~trained)
        => /\ weight = Some(Ones(SumMul(Rs)))
           /\ bias = Some(Zeros(SumMulScalar(Rs)))

\* C3 as stated: with affine enabled and an input whose channel count is the
\* sum of the kept block widths, when the loop of forward ends iw is the
\* weight vector's length and ib the bias vector's length, and neither
\* parameter assertion fires.
C3_ParameterAccounting ==
    (Called /\ affine /\ Channels(input[1]) = Width(Rs))
        => /\ (pc = "loop" /\ k = Len(Rs))
                  => (iw = Len(weight[1]) /\ ib = Len(bias[1]))
           /\ raised \notin {Some(<<"AssertionError", 66>>), Some(<<"AssertionError", 67>>)}

\* the cases of C4: the channel count differs from the sum of the block
\* widths, or (affine) the loop ended with a consumed parameter count that
\* differs from the allocated length
Mismatch ==
    /\ Called
    /\ \/ Channels(input[1]) # Width(Rs)
       \/ affine /\ LoopDone /\ (iw # Len(weight[1]) \/ ib # Len(bias[1]))

\* C4 as stated: on a mismatch forward never returns a tensor and what it
\* raises is the assertion error.
C4_AlwaysAssertion ==
    Mismatch => /\ y = None /\ out = None
                /\ Terminated => (raised # None /\ RaisedType = "AssertionError")

\* C4 amended: on a mismatch forward never returns a tensor and always
\* raises.  It raises the AssertionError of lines 64-67 when the loop runs to
\* its end; when the batch is empty and Rs is not, or when the channels are
\* too few and the spatial axes are not empty, view raises a RuntimeError
\* inside the loop (line 40 or 62) before any assertion is reached.
C4_NeverReturns ==
    Mismatch =>
        /\ y = None /\ out = None
        /\ pc \in {"loop", "raised"}
        /\ pc = "raised" =>
             LET t == input[1]
                 inLoop == \/ Batch(t) = 0 /\ Rs # <<>>
                           \/ Batch(t) > 0 /\ Spatial(t) > 0 /\ Channels(t) < Width(Rs)
             IN  /\ raised # None
                 /\ inLoop => (RaisedType = "RuntimeError" /\ raised[1][2] \in {40, 62})
                 /\ ~inLoop => (RaisedType = "AssertionError" /\ raised[1][2] \in {64, 66})

C4_Witness ==
    /\ Called /\ Batch(input[1]) > 0 /\ Spatial(input[1]) > 0
    /\ Channels(input[1]) > Width(Rs) /\ Len(Rs) = 2
    /\ raised = Some(<<"AssertionError", 64>>)

\* C5: without affine the module holds no parameter (weight and bias are
\* None), forward reads no weight and no bias and leaves iw and ib at 0, and
\* no entry of the output carries a weight or a bias term.
C5_NoParameters ==
    ~affine =>
        /\ weight = None /\ bias = None
        /\ iw = 0 /\ ib = 0
        /\ \A i \in 1..Len(reads) : reads[i].w = None /\ reads[i].b = None
        /\ \A i \in 1..Len(fields) : \A e \in DOMAIN fields[i].at :
              fields[i].at[e].weight = None /\ fields[i].at[e].bias = None
        /\ y # None => \A e \in DOMAIN y[1].at :
              y[1].at[e].weight = None /\ y[1].at[e].bias = None

C5_Witness ==
    /\ ~affine /\ pc = "returned" /\ Len(Rs) = 2 /\ Batch(input[1]) = 2
    /\ Rs[1][2] = 1 /\ Rs[2][2] = 3

\* C6: the mean of a batch sample is subtracted from a block iff its
\* dimension is 1; an entry of a block with d > 1 is the input entry times
\* the scale, with no mean subtracted and no bias added, affine or not.
C6_CentredIffScalar ==
    \A i \in 1..Len(fields) :
        LET m  == reads[i].m
            d  == reads[i].d
            lo == reads[i].chan[1]
            t  == input[1]
        IN  \A e \in DOMAIN fields[i].at :
               LET x  == RatInt(t.at[<<e[1], lo + e[2], e[3]>>])
                   mu == RatDivInt(
                            RatSum([n \in 1..(m * Spatial(t)) |->
                                      RatInt(t.at[<<e[1], lo + ((n - 1) \div Spatial(t)) + 1,
                                                    ((n - 1) % Spatial(t)) + 1>>])],
                                   m * Spatial(t)),
                            m * Spatial(t))
               IN  IF d = 1
                   THEN fields[i].at[e].centred = RatSub(x, mu)
                   ELSE /\ fields[i].at[e].centred = x
                        /\ fields[i].at[e].bias = None

C6_Witness ==
    /\ pc = "returned" /\ Len(fields) = 2
    /\ reads[1].d = 3 /\ reads[2].d = 1
    /\ \E e \in DOMAIN fields[1].at : fields[1].at[e].centred # RatInt(0)
    /\ \E e \in DOMAIN fields[2].at :
          fields[2].at[e].centred # RatInt(input[1].at[<<e[1], reads[2].chan[1] + e[2], e[3]>>])

\* C7: SE3GNConvolution builds its normalisation from [(m, 2*l+1)] of Rs_in,
\* in order, when Rs_gn is None and from Rs_gn otherwise (always affine); its
\* forward calls the normalisation, then the convolution, once each, and
\* returns the convolution of what the normalisation returned.
C7_NormThenConv ==
    cls = "SE3GNConvolution" =>
        /\ IF ctor.Rs_gn = None
           THEN /\ Len(Rs_arg) = Len(ctor.Rs_in)
                /\ \A i \in 1..Len(Rs_arg) :
                      Rs_arg[i] = <<ctor.Rs_in[i][1], 2 * ctor.Rs_in[i][2] + 1>>
           ELSE Rs_arg = ctor.Rs_gn[1]
        /\ affine
        /\ calls \in {<<>>, <<"gn">>, <<"gn", "conv">>}
        /\ (Len(calls) = 2) = (pc = "returned")
        /\ (out # None) = (pc = "returned")
        /\ pc = "returned" => (y # None /\ out = Some([conv |-> y[1]]))
        /\ pc = "conv" => y # None

C7_Witness ==
    /\ cls = "SE3GNConvolution" /\ ctor.Rs_gn = None
    /\ ctor.Rs_in = << <<2, 0>>, <<1, 1>> >>
    /\ Rs = << <<2, 1>>, <<1, 3>> >>
    /\ pc = "returned" /\ calls = <<"gn", "conv">> /\ out # None

\* the sum of m over the first n entries of reads, and over those with d = 1
MulBefore(n) == SumSeq([j \in 1..n |-> reads[j].m])
ScalarMulBefore(n) == SumSeq([j \in 1..n |-> IF reads[j].d = 1 THEN reads[j].m ELSE 0])

\* C8 (state part): with affine, block i reads the weights
\* [sum of earlier m, + m_i) and, iff d_i = 1, the biases
\* [sum of earlier scalar m, + m_i); the ranges of different blocks are
\* disjoint and inside the vectors; ix, iw and ib are where the last block
\* consumed stopped.
C8_Slices ==
    affine =>
        /\ \A i \in 1..Len(reads) :
              /\ reads[i].m = Rs[i][1] /\ reads[i].d = Rs[i][2]
              /\ reads[i].w = Some(<<MulBefore(i - 1), MulBefore(i - 1) + reads[i].m>>)
              /\ reads[i].w[1][2] <= Len(weight[1])
              /\ IF reads[i].d = 1
                 THEN /\ reads[i].b =
                           Some(<<ScalarMulBefore(i - 1), ScalarMulBefore(i - 1) + reads[i].m>>)
                      /\ reads[i].b[1][2] <= Len(bias[1])
                 ELSE reads[i].b = None
              /\ \A j \in 1..(i - 1) :
                    /\ reads[j].w[1][2] <= reads[i].w[1][1]
                    /\ (reads[j].b # None /\ reads[i].b # None)
                          => reads[j].b[1][2] <= reads[i].b[1][1]
        /\ iw = MulBefore(Len(reads))
        /\ ib = ScalarMulBefore(Len(reads))
        /\ \A i \in 1..Len(fields) : \A e \in DOMAIN fields[i].at :
              /\ fields[i].at[e].weight = Some(weight[1][reads[i].w[1][1] + MulOf(e[2], reads[i].d)])
              /\ fields[i].at[e].bias =
                    IF reads[i].d = 1
                    THEN Some(bias[1][reads[i].b[1][1] + MulOf(e[2], reads[i].d)])
                    ELSE None

\* C8: the above in every state, and no step decreases ix, iw or ib.
C8_Offsets ==
    /\ []C8_Slices
    /\ [][ix' >= ix /\ iw' >= iw /\ ib' >= ib]_vars

C8_Witness ==
    /\ affine /\ trained /\ pc = "returned" /\ Len(reads) = 2
    /\ reads[1].d = 1 /\ reads[2].d = 1 /\ reads[1].m = 2
    /\ reads[2].w = Some(<<2, 3>>) /\ reads[2].b = Some(<<2, 3>>)

\* C9: the output holds block i in the channels the block has in the input
\* (blocks in Rs order, adjacent, covering every channel), and those output
\* channels do not change when an input entry outside the block's channels,
\* or a weight or a bias outside the block's slices, is changed.
C9_BlockLocal ==
    GroupNormReturned =>
        LET t == input[1]
        IN  /\ Len(reads) = Len(Rs) /\ Len(fields) = Len(Rs)
            /\ \A i \in 1..Len(reads) :
                  LET lo == reads[i].chan[1]
                      hi == reads[i].chan[2]
                      m  == reads[i].m
                      d  == reads[i].d
                      w  == IF affine THEN Some(PySlice(weight[1], reads[i].w[1][1], reads[i].w[1][2]))
                            ELSE None
                      b  == IF reads[i].b # None
                            THEN Some(PySlice(bias[1], reads[i].b[1][1], reads[i].b[1][2]))
                            ELSE None
                  IN  /\ lo = Width(Prefix(Rs, i - 1)) /\ hi = lo + m * d
                      /\ hi <= Channels(t)
                      /\ i = Len(reads) => hi = Channels(t)
                      /\ \A e \in DOMAIN fields[i].at :
                            y[1].at[<<e[1], lo + e[2], e[3]>>] = fields[i].at[e]
                      /\ \A e \in DOMAIN t.at :
                            (e[2] <= lo \/ e[2] > hi)
                               => ProcessField(PointChange(t, e), lo, m, d, w, b) = fields[i]
                      /\ affine =>
                            \A n \in 1..Len(weight[1]) :
                               (n <= reads[i].w[1][1] \/ n > reads[i].w[1][2])
                                  => ProcessField(t, lo, m, d,
                                        Some(PySlice(Bumped(weight[1], n), reads[i].w[1][1],
                                                     reads[i].w[1][2])), b) = fields[i]
                      /\ reads[i].b # None =>
                            \A n \in 1..Len(bias[1]) :
                               (n <= reads[i].b[1][1] \/ n > reads[i].b[1][2])
                                  => ProcessField(t, lo, m, d, w,
                                        Some(PySlice(Bumped(bias[1], n), reads[i].b[1][1],
                                                     reads[i].b[1][2]))) = fields[i]

C9_Witness ==
    /\ pc = "returned" /\ affine /\ trained /\ Len(Rs) = 2 /\ Batch(input[1]) = 2
    /\ Rs[1] = <<2, 1>> /\ Rs[2] = <<1, 3>>
    /\ y[1].at[<<1, 3, 1>>] = fields[2].at[<<1, 1, 1>>]
    /\ y[1].at[<<1, 3, 1>>] # y[1].at[<<1, 1, 1>>]

\* C10: within a block every entry of a batch sample carries the same norm
\* statistic, and the block's output for a batch sample does not change when
\* an input entry of another batch sample is changed.
C10_PerSample ==
    GroupNormReturned => \A i \in 1..Len(fields) :
        LET t == input[1]
            w == IF reads[i].w # None
                 THEN Some(PySlice(weight[1], reads[i].w[1][1], reads[i].w[1][2])) ELSE None
            b == IF reads[i].b # None
                 THEN Some(PySlice(bias[1], reads[i].b[1][1], reads[i].b[1][2])) ELSE None
        IN  /\ \A e1, e2 \in DOMAIN fields[i].at :
                  e1[1] = e2[1] => fields[i].at[e1].radicand = fields[i].at[e2].radicand
            /\ \A e \in DOMAIN t.at : \A s \in 1..Batch(t) :
                  s # e[1] =>
                     OfBatch(ProcessField(PointChange(t, e), reads[i].chan[1], reads[i].m,
                                          reads[i].d, w, b), s)
                        = OfBatch(fields[i], s)

C10_Witness ==
    /\ pc = "returned" /\ Batch(input[1]) = 2 /\ Len(fields) = 2
    /\ reads[1].m = 2 /\ reads[1].d = 1 /\ reads[2].d = 3
    /\ fields[1].at[<<1, 1, 1>>].radicand # fields[1].at[<<2, 1, 1>>].radicand
    /\ fields[2].at[<<1, 1, 1>>].radicand # fields[2].at[<<2, 1, 1>>].radicand

====
